---- MODULE Spec2Model ----
(***************************************************************************)
(* Model of app.py: the transcript service.  A Python str is a sequence    *)
(* of one-character strings; None is the one-element sequence <<"None">>,  *)
(* which no str equals because its element is not a single character.      *)
(* A float is the integer number of 2^-11 second units it holds: every     *)
(* such value below 2^20 seconds is an exact double, and the %, + and      *)
(* truncating divisions of format_time are exact on them.                  *)
(***************************************************************************)
EXTENDS Integers, Sequences, FiniteSets, TLC

VARIABLES pc, request, video_url, format_type, video_id, calls, outcome, response

vars == <<pc, request, video_url, format_type, video_id, calls, outcome, response>>

(* ---------------- bounds ---------------- *)
MaxPieces == 3
MaxUrlParts == 2
MaxLen == 2

(* ---------------- Python values ---------------- *)
None == <<"None">>

Falsy(x) == x = None \/ x = <<>>

IsSpace(c) == c \in {" ", "\t", "\n", "\r", "\f"}

RECURSIVE Concat(_)
Concat(ss) == IF ss = <<>> THEN <<>> ELSE Head(ss) \o Concat(Tail(ss))

StartsAt(s, pos, lit) ==
    /\ pos + Len(lit) - 1 <= Len(s)
    /\ \A i \in 1..Len(lit) : s[pos + i - 1] = lit[i]

(* ---------------- extract_video_id ---------------- *)
Lit_https == <<"h","t","t","p","s",":","/","/">>
Lit_http == <<"h","t","t","p",":","/","/">>
Lit_www == <<"w","w","w",".">>
Lit_youtube_com == <<"y","o","u","t","u","b","e",".","c","o","m">>
Lit_youtu_be == <<"y","o","u","t","u",".","b","e">>
Lit_slash == <<"/">>
Lit_watch == <<"w","a","t","c","h","?","v","=">>
Lit_embed == <<"e","m","b","e","d","/">>
Lit_v == <<"v","/">>
Lit_shorts == <<"s","h","o","r","t","s","/">>
Lit_live == <<"l","i","v","e","/">>
Lit_veq == <<"v","=">>

IdLen == 11

\* the pattern with the host and its "/" made optional like the groups around
pattern_host_optional ==
    << [alts |-> <<Lit_https, Lit_http>>, opt |-> TRUE],
       [alts |-> <<Lit_www>>, opt |-> TRUE],
       [alts |-> <<Lit_youtube_com, Lit_youtu_be>>, opt |-> TRUE],
       [alts |-> <<Lit_slash>>, opt |-> TRUE],
       [alts |-> <<Lit_watch>>, opt |-> TRUE],
       [alts |-> <<Lit_embed>>, opt |-> TRUE],
       [alts |-> <<Lit_v>>, opt |-> TRUE],
       [alts |-> <<Lit_shorts>>, opt |-> TRUE],
       [alts |-> <<Lit_live>>, opt |-> TRUE],
       [alts |-> <<Lit_embed>>, opt |-> TRUE],
       [alts |-> <<Lit_shorts>>, opt |-> TRUE],
       [alts |-> <<Lit_veq>>, opt |-> TRUE] >>

\* The pattern of line 16, one record per group: the alternatives in the
\* order the regex tries them, and whether the group carries a "?".
\* (?:https?:\/\/)? tries "https://" before "http://" (s? is greedy).
pattern ==
    << [alts |-> <<Lit_https, Lit_http>>, opt |-> TRUE],
       [alts |-> <<Lit_www>>, opt |-> TRUE],
       [alts |-> <<Lit_youtube_com, Lit_youtu_be>>, opt |-> FALSE],
       [alts |-> <<Lit_slash>>, opt |-> FALSE],
       [alts |-> <<Lit_watch>>, opt |-> TRUE],
       [alts |-> <<Lit_embed>>, opt |-> TRUE],
       [alts |-> <<Lit_v>>, opt |-> TRUE],
       [alts |-> <<Lit_shorts>>, opt |-> TRUE],
       [alts |-> <<Lit_live>>, opt |-> TRUE],
       [alts |-> <<Lit_embed>>, opt |-> TRUE],
       [alts |-> <<Lit_shorts>>, opt |-> TRUE],
       [alts |-> <<Lit_veq>>, opt |-> TRUE] >>

\* (\S{11}) at pos: the captured group, or None
Capture(s, pos) ==
    IF /\ pos + IdLen - 1 <= Len(s)
       /\ \A i \in pos..(pos + IdLen - 1) : ~IsSpace(s[i])
    THEN SubSeq(s, pos, pos + IdLen - 1)
    ELSE None

\* Backtracking match of groups k.. of the pattern at pos, in the regex
\* engine's order: each alternative in turn, then (for a "?" group) the
\* empty match.  The value is group 1 of the first match found, or None.
RECURSIVE MatchFrom(_, _, _), TryAlts(_, _, _, _)
MatchFrom(s, pos, k) ==
    IF k > Len(pattern) THEN Capture(s, pos) ELSE TryAlts(s, pos, k, 1)

TryAlts(s, pos, k, a) ==
    IF a > Len(pattern[k].alts)
    THEN IF pattern[k].opt THEN MatchFrom(s, pos, k + 1) ELSE None
    ELSE LET lit == pattern[k].alts[a]
             r == IF StartsAt(s, pos, lit)
                  THEN MatchFrom(s, pos + Len(lit), k + 1)
                  ELSE None
         IN IF r # None THEN r ELSE TryAlts(s, pos, k, a + 1)

\* re.search: the match at the leftmost position that has one
RECURSIVE Search(_, _)
Search(s, pos) ==
    IF pos > Len(s) + 1 THEN None
    ELSE LET r == MatchFrom(s, pos, 1)
         IN IF r # None THEN r ELSE Search(s, pos + 1)

\* extract_video_id with re.match in the place of re.search
extract_video_id_match(url) == MatchFrom(url, 1, 1)

extract_video_id(url) == Search(url, 1)

(* ---------------- format_time ---------------- *)
\* units per second of the float model
Unit == 2 ^ 11

Digits == <<"0","1","2","3","4","5","6","7","8","9">>

\* str(n) / the "d" presentation of a non-negative int
RECURSIVE Dec(_)
Dec(n) == IF n < 10 THEN <<Digits[n + 1]>> ELSE Dec(n \div 10) \o <<Digits[(n % 10) + 1]>>

\* the "0w" part of a format spec: zeros on the left up to width w
RECURSIVE ZeroPad(_, _)
ZeroPad(s, w) == IF Len(s) >= w THEN s ELSE ZeroPad(<<"0">> \o s, w)

\* x rounded to a whole number of milliseconds, ties to even, as the "f"
\* presentation rounds the exact value of the double: x * 1000 / 2^11
Millis(x) ==
    LET n == x * 125
        q == n \div 256
        r == n % 256
    IN IF r > 128 \/ (r = 128 /\ q % 2 = 1) THEN q + 1 ELSE q

\* f"{x:06.3f}" for 0 <= x < 60 seconds
Fixed3(x) ==
    LET ms == Millis(x)
    IN ZeroPad(Dec(ms \div 1000) \o <<".">> \o ZeroPad(Dec(ms % 1000), 3), 6)

\* str.replace(old, new) for one-character old and new
Replace(s, old, new) == [i \in 1..Len(s) |-> IF s[i] = old THEN new ELSE s[i]]

format_time(seconds) ==
    LET hours == seconds \div (3600 * Unit)
        minutes == (seconds % (3600 * Unit)) \div (60 * Unit)
        secs == seconds % (60 * Unit)
    IN Replace(ZeroPad(Dec(hours), 2) \o <<":">> \o ZeroPad(Dec(minutes), 2)
                 \o <<":">> \o Fixed3(secs), ".", ",")

(* ---------------- json.dumps ---------------- *)
\* repr(float): the exact decimal expansion, which is the shortest
\* round-tripping one while it has at most 15 significant digits
RECURSIVE FracDigits(_)
FracDigits(r) ==
    IF r = 0 THEN <<>>
    ELSE <<Digits[((r * 10) \div Unit) + 1]>> \o FracDigits((r * 10) % Unit)

FloatRepr(x) ==
    Dec(x \div Unit) \o <<".">>
        \o (IF x % Unit = 0 THEN <<"0">> ELSE FracDigits(x % Unit))

\* the JSON string literal of a str
RECURSIVE Escape(_)
Escape(s) ==
    IF s = <<>> THEN <<>>
    ELSE (CASE Head(s) = "\n" -> <<"\\", "n">>
            [] Head(s) = "\"" -> <<"\\", "\"">>
            [] Head(s) = "\\" -> <<"\\", "\\">>
            [] OTHER -> <<Head(s)>>) \o Escape(Tail(s))

JsonStr(s) == <<"\"">> \o Escape(s) \o <<"\"">>

\* sep.join(parts)
RECURSIVE Join(_, _)
Join(sep, parts) ==
    IF parts = <<>> THEN <<>>
    ELSE IF Len(parts) = 1 THEN parts[1]
    ELSE parts[1] \o sep \o Join(sep, Tail(parts))

Spaces(n) == [i \in 1..n |-> " "]

\* newline and indentation of nesting level lvl; nothing when indent is None.
\* The indent argument is the set {n}, or {} for None.
Nl(indent, lvl) ==
    IF indent = {} THEN <<>> ELSE <<"\n">> \o Spaces((CHOOSE n \in indent : TRUE) * lvl)

ItemSep(indent) == IF indent = {} THEN <<",", " ">> ELSE <<",">>

Key_text == <<"\"","t","e","x","t","\"",":"," ">>
Key_start == <<"\"","s","t","a","r","t","\"",":"," ">>
Key_duration == <<"\"","d","u","r","a","t","i","o","n","\"",":"," ">>

JsonEntry(item, indent) ==
    <<"{">> \o Nl(indent, 2)
      \o Key_text \o JsonStr(item.text) \o ItemSep(indent) \o Nl(indent, 2)
      \o Key_start \o FloatRepr(item.start) \o ItemSep(indent) \o Nl(indent, 2)
      \o Key_duration \o FloatRepr(item.duration)
      \o Nl(indent, 1) \o <<"}">>

\* json.dumps(transcript, indent=indent)
json_dumps(transcript, indent) ==
    IF transcript = <<>> THEN <<"[", "]">>
    ELSE <<"[">> \o Nl(indent, 1)
           \o Join(ItemSep(indent) \o Nl(indent, 1),
                   [i \in 1..Len(transcript) |-> JsonEntry(transcript[i], indent)])
           \o Nl(indent, 0) \o <<"]">>

(* ---------------- format_transcript ---------------- *)
Str_txt == <<"t","x","t">>
Str_srt == <<"s","r","t">>
Str_json == <<"j","s","o","n">>
Str_xml == <<"x","m","l">>
Arrow == <<" ","-","-",">"," ">>

\* SrtLoop over enumerate(transcript), which counts from 0
RECURSIVE SrtLoop_from0(_, _, _)
SrtLoop_from0(transcript, i, srt) ==
    IF i > Len(transcript) THEN srt
    ELSE LET item == transcript[i]
             start == format_time(item.start)
             end == format_time(item.start + item.duration)
         IN SrtLoop_from0(transcript, i + 1,
                    srt \o Dec(i - 1) \o <<"\n">> \o start \o Arrow \o end \o <<"\n">>
                        \o item.text \o <<"\n", "\n">>)

\* the loop of lines 25-28: srt after the entries i..len have been appended
RECURSIVE SrtLoop(_, _, _)
SrtLoop(transcript, i, srt) ==
    IF i > Len(transcript) THEN srt
    ELSE LET item == transcript[i]
             start == format_time(item.start)
             end == format_time(item.start + item.duration)
         IN SrtLoop(transcript, i + 1,
                    srt \o Dec(i) \o <<"\n">> \o start \o Arrow \o end \o <<"\n">>
                        \o item.text \o <<"\n", "\n">>)

\* format_transcript with indent=2 in the fallback branch too
format_transcript_else_pretty(transcript, fmt) ==
    IF fmt = Str_txt
    THEN Join(<<"\n">>, [i \in 1..Len(transcript) |-> transcript[i].text])
    ELSE IF fmt = Str_srt THEN SrtLoop(transcript, 1, <<>>)
    ELSE json_dumps(transcript, {2})

format_transcript(transcript, fmt) ==
    IF fmt = Str_txt
    THEN Join(<<"\n">>, [i \in 1..Len(transcript) |-> transcript[i].text])
    ELSE IF fmt = Str_srt THEN SrtLoop(transcript, 1, <<>>)
    ELSE IF fmt = Str_json THEN json_dumps(transcript, {2})
    ELSE json_dumps(transcript, {})

(* ---------------- the requests and the provider ---------------- *)
Tok_id == <<"d","Q","w","4","w","9","W","g","X","c","Q">>
Tok_abc == <<"a","b","c">>
Str_not_a_url == <<"n","o","t"," ","a"," ","u","r","l">>

\* what a video_url of the service model is put together from
UrlParts ==
    { Lit_https \o Lit_www \o Lit_youtube_com \o Lit_slash \o Lit_watch,
      Lit_https \o Lit_youtu_be \o Lit_slash,
      Lit_youtube_com, Lit_watch, Tok_id, Tok_abc, <<" ">>, Str_not_a_url }

\* what a url of the extractor model is put together from
Pieces ==
    { Lit_https \o Lit_www \o Lit_youtube_com \o Lit_slash,
      Lit_youtu_be \o Lit_slash, Lit_http, Lit_youtube_com, Lit_slash,
      Lit_watch, Lit_embed, Lit_shorts, Lit_v, Lit_live, Lit_veq,
      Tok_id, Tok_abc, <<" ">>, Str_not_a_url }

StringsOf(parts, n) == { Concat(ps) : ps \in UNION { [1..k -> parts] : k \in 0..n } }

\* request.args.get('video_url'): None when the parameter is missing
VideoUrlArgs == StringsOf(UrlParts, MaxUrlParts) \cup {None}

\* request.args.get('format') before the default is applied
FormatArgs == {None, Str_txt, Str_srt, Str_json, Str_xml, <<>>}

CaptionEntries ==
    { [text |-> <<"H","i">>, start |-> 0, duration |-> 3 * (Unit \div 2)],
      [text |-> <<"a","\n","b">>, start |-> 3661 * Unit + Unit \div 2, duration |-> Unit \div 16],
      [text |-> <<>>, start |-> 60 * Unit - 1, duration |-> 3540 * Unit] }

Transcripts == UNION { [1..n -> CaptionEntries] : n \in 0..MaxLen }

Failures == {"NoTranscriptFound", "TranscriptsDisabled", "VideoUnavailable", "Exception"}

Boom == <<"b","o","o","m">>

\* what YouTubeTranscriptApi.get_transcript can do: return a transcript or raise
FetchOutcomes ==
    { [kind |-> "ok", transcript |-> t, message |-> <<>>] : t \in Transcripts }
    \cup { [kind |-> k, transcript |-> <<>>, message |-> Boom] : k \in Failures }

\* what YouTubeTranscriptApi.list_transcripts can do
ListOutcomes ==
    { [kind |-> k, transcript |-> <<>>, message |-> IF k = "ok" THEN <<>> ELSE Boom]
        : k \in Failures \cup {"ok"} }

NoOutcome == [kind |-> "none", transcript |-> <<>>, message |-> <<>>]

NoRequest == [endpoint |-> "none", video_url |-> None, format |-> None]

NoResponse == [status |-> 0, mimetype |-> "", body |-> <<>>, json |-> {}]

\* jsonify(payload), status: payload is the set of the object's <<key, value>>
jsonify(payload, status) ==
    [status |-> status, mimetype |-> "application/json", body |-> <<>>, json |-> payload]

\* Response(body, mimetype=mimetype): the status defaults to 200
Response(body, mimetype) ==
    [status |-> 200, mimetype |-> mimetype, body |-> body, json |-> {}]

Init ==
    /\ pc = "idle"
    /\ request = NoRequest
    /\ video_url = None
    /\ format_type = None
    /\ video_id = None
    /\ calls = 0
    /\ outcome = NoOutcome
    /\ response = NoResponse

\* a client sends GET /api/transcript or GET /api/check-transcript
Request ==
    /\ pc = "idle"
    /\ \E u \in VideoUrlArgs :
         \/ \E f \in FormatArgs :
              request' = [endpoint |-> "/api/transcript", video_url |-> u, format |-> f]
         \/ request' = [endpoint |-> "/api/check-transcript", video_url |-> u, format |-> None]
    /\ pc' = "received"
    /\ UNCHANGED <<video_url, format_type, video_id, calls, outcome, response>>

\* get_transcript, lines 44-55: read the arguments, reject a bad video_url
get_transcript_validate ==
    /\ pc = "received"
    /\ request.endpoint = "/api/transcript"
    /\ video_url' = request.video_url
    /\ format_type' = IF request.format = None THEN Str_json ELSE request.format
    /\ IF Falsy(request.video_url)
       THEN /\ response' = jsonify({<<"error", "No video URL provided">>}, 400)
            /\ pc' = "responded"
            /\ UNCHANGED video_id
       ELSE /\ video_id' = extract_video_id(request.video_url)
            /\ IF Falsy(video_id')
               THEN /\ response' = jsonify({<<"error", "Invalid YouTube URL">>}, 400)
                    /\ pc' = "responded"
               ELSE /\ pc' = "fetching"
                    /\ UNCHANGED response
    /\ UNCHANGED <<request, calls, outcome>>

\* get_transcript_fetch inside a retry loop: a raising call is made again
get_transcript_fetch_retry ==
    /\ \/ pc = "fetching"
       \/ pc = "returned" /\ outcome.kind # "ok" /\ calls < 3
    /\ request.endpoint = "/api/transcript"
    /\ calls' = calls + 1
    /\ outcome' \in FetchOutcomes
    /\ pc' = "returned"
    /\ UNCHANGED <<request, video_url, format_type, video_id, response>>

\* get_transcript, line 59: the provider returns or raises
get_transcript_fetch ==
    /\ pc = "fetching"
    /\ request.endpoint = "/api/transcript"
    /\ calls' = calls + 1
    /\ outcome' \in FetchOutcomes
    /\ pc' = "returned"
    /\ UNCHANGED <<request, video_url, format_type, video_id, response>>

\* transcript_response with "except Exception" written as the first clause
transcript_response_broad_first(o, fmt) ==
    IF o.kind = "ok"
    THEN LET formatted_transcript == format_transcript(o.transcript, fmt)
         IN IF fmt = Str_txt THEN Response(formatted_transcript, "text/plain")
            ELSE IF fmt = Str_srt THEN Response(formatted_transcript, "text/plain")
            ELSE Response(formatted_transcript, "application/json")
    ELSE jsonify({<<"error", "An unexpected error occurred">>,
                  <<"details", o.message>>}, 500)

\* transcript_response with one clause, except (NoTranscriptFound, VideoUnavailable)
transcript_response_merged(o, fmt) ==
    IF o.kind = "ok"
    THEN LET formatted_transcript == format_transcript(o.transcript, fmt)
         IN IF fmt = Str_txt THEN Response(formatted_transcript, "text/plain")
            ELSE IF fmt = Str_srt THEN Response(formatted_transcript, "text/plain")
            ELSE Response(formatted_transcript, "application/json")
    ELSE IF o.kind \in {"NoTranscriptFound", "VideoUnavailable"}
    THEN jsonify({<<"error", "No transcript found for this video">>,
                  <<"details", "The video does not have any available transcripts.">>}, 404)
    ELSE IF o.kind = "TranscriptsDisabled"
    THEN jsonify({<<"error", "Transcripts are disabled for this video">>,
                  <<"details", "The video owner has disabled transcripts for this content.">>}, 403)
    ELSE jsonify({<<"error", "An unexpected error occurred">>,
                  <<"details", o.message>>}, 500)

\* transcript_response whose 500 answer is built like the 400 ones
transcript_response_no_details(o, fmt) ==
    IF o.kind = "ok"
    THEN LET formatted_transcript == format_transcript(o.transcript, fmt)
         IN IF fmt = Str_txt THEN Response(formatted_transcript, "text/plain")
            ELSE IF fmt = Str_srt THEN Response(formatted_transcript, "text/plain")
            ELSE Response(formatted_transcript, "application/json")
    ELSE IF o.kind = "NoTranscriptFound"
    THEN jsonify({<<"error", "No transcript found for this video">>,
                  <<"details", "The video does not have any available transcripts.">>}, 404)
    ELSE IF o.kind = "TranscriptsDisabled"
    THEN jsonify({<<"error", "Transcripts are disabled for this video">>,
                  <<"details", "The video owner has disabled transcripts for this content.">>}, 403)
    ELSE IF o.kind = "VideoUnavailable"
    THEN jsonify({<<"error", "The video is unavailable">>,
                  <<"details", "The requested video could not be accessed. It might be private or deleted.">>}, 404)
    ELSE jsonify({<<"error", "An unexpected error occurred">>}, 500)

\* get_transcript, lines 62-83: the response to what the provider did, the
\* except clauses tried in the order they are written
transcript_response(o, fmt) ==
    IF o.kind = "ok"
    THEN LET formatted_transcript == format_transcript(o.transcript, fmt)
         IN IF fmt = Str_txt THEN Response(formatted_transcript, "text/plain")
            ELSE IF fmt = Str_srt THEN Response(formatted_transcript, "text/plain")
            ELSE Response(formatted_transcript, "application/json")
    ELSE IF o.kind = "NoTranscriptFound"
    THEN jsonify({<<"error", "No transcript found for this video">>,
                  <<"details", "The video does not have any available transcripts.">>}, 404)
    ELSE IF o.kind = "TranscriptsDisabled"
    THEN jsonify({<<"error", "Transcripts are disabled for this video">>,
                  <<"details", "The video owner has disabled transcripts for this content.">>}, 403)
    ELSE IF o.kind = "VideoUnavailable"
    THEN jsonify({<<"error", "The video is unavailable">>,
                  <<"details", "The requested video could not be accessed. It might be private or deleted.">>}, 404)
    ELSE jsonify({<<"error", "An unexpected error occurred">>,
                  <<"details", o.message>>}, 500)

get_transcript_respond ==
    /\ pc = "returned"
    /\ request.endpoint = "/api/transcript"
    /\ response' = transcript_response(outcome, format_type)
    /\ pc' = "responded"
    /\ UNCHANGED <<request, video_url, format_type, video_id, calls, outcome>>

\* check_transcript, lines 102-108
check_transcript_validate ==
    /\ pc = "received"
    /\ request.endpoint = "/api/check-transcript"
    /\ video_url' = request.video_url
    /\ IF Falsy(request.video_url)
       THEN /\ response' = jsonify({<<"error", "No video URL provided">>}, 400)
            /\ pc' = "responded"
            /\ UNCHANGED video_id
       ELSE /\ video_id' = extract_video_id(request.video_url)
            /\ IF Falsy(video_id')
               THEN /\ response' = jsonify({<<"error", "Invalid YouTube URL">>}, 400)
                    /\ pc' = "responded"
               ELSE /\ pc' = "fetching"
                    /\ UNCHANGED response
    /\ UNCHANGED <<request, format_type, calls, outcome>>

\* check_transcript, line 111
check_transcript_list ==
    /\ pc = "fetching"
    /\ request.endpoint = "/api/check-transcript"
    /\ calls' = calls + 1
    /\ outcome' \in ListOutcomes
    /\ pc' = "returned"
    /\ UNCHANGED <<request, video_url, format_type, video_id, response>>

\* check_response answering an unavailable transcript as /api/transcript does
check_response_not_found(o) ==
    IF o.kind = "ok"
    THEN jsonify({<<"available", "True">>, <<"message", "Transcript is available">>}, 200)
    ELSE IF o.kind \in {"NoTranscriptFound", "TranscriptsDisabled", "VideoUnavailable"}
    THEN jsonify({<<"available", "False">>,
                  <<"message", "Transcript is not available for this video">>}, 404)
    ELSE jsonify({<<"error", "An unexpected error occurred">>,
                  <<"details", o.message>>}, 500)

\* check_transcript, lines 112-117
check_response(o) ==
    IF o.kind = "ok"
    THEN jsonify({<<"available", "True">>, <<"message", "Transcript is available">>}, 200)
    ELSE IF o.kind \in {"NoTranscriptFound", "TranscriptsDisabled", "VideoUnavailable"}
    THEN jsonify({<<"available", "False">>,
                  <<"message", "Transcript is not available for this video">>}, 200)
    ELSE jsonify({<<"error", "An unexpected error occurred">>,
                  <<"details", o.message>>}, 500)

check_transcript_respond ==
    /\ pc = "returned"
    /\ request.endpoint = "/api/check-transcript"
    /\ response' = check_response(outcome)
    /\ pc' = "responded"
    /\ UNCHANGED <<request, video_url, format_type, video_id, calls, outcome>>

\* the response is sent; the handler's locals die and the next request can come
Done ==
    /\ pc = "responded"
    /\ pc' = "idle"
    /\ request' = NoRequest
    /\ video_url' = None
    /\ format_type' = None
    /\ video_id' = None
    /\ calls' = 0
    /\ outcome' = NoOutcome
    /\ response' = NoResponse

Next ==
    \/ Request
    \/ get_transcript_validate
    \/ get_transcript_fetch
    \/ get_transcript_respond
    \/ check_transcript_validate
    \/ check_transcript_list
    \/ check_transcript_respond
    \/ Done

Spec == Init /\ [][Next]_vars

(* ---------------- the extractor alone ---------------- *)
InitExtract ==
    /\ pc = "idle"
    /\ request = NoRequest
    /\ video_url \in StringsOf(Pieces, MaxPieces)
    /\ format_type = None
    /\ video_id = None
    /\ calls = 0
    /\ outcome = NoOutcome
    /\ response = NoResponse

Extract ==
    /\ pc = "idle"
    /\ video_id' = extract_video_id(video_url)
    /\ pc' = "extracted"
    /\ UNCHANGED <<request, video_url, format_type, calls, outcome, response>>

NextExtract == Extract

SpecExtract == InitExtract /\ [][NextExtract]_vars

(* ======================= the claims ======================= *)
TranscriptDone == pc = "responded" /\ request.endpoint = "/api/transcript"

CheckDone == pc = "responded" /\ request.endpoint = "/api/check-transcript"

NoIdentifier(url) == Falsy(url) \/ extract_video_id(url) = None

HasKey(payload, key) == \E kv \in payload : kv[1] = key

\* C1: the status of every /api/transcript response is 400 when video_url
\* is missing or yields no identifier, 404 after NoTranscriptFound or
\* VideoUnavailable, 403 after TranscriptsDisabled, 500 after any other
\* failure, and 200 only when the provider returned a transcript.
C1_TranscriptStatus ==
    TranscriptDone =>
      /\ response.status =
           IF NoIdentifier(request.video_url) THEN 400
           ELSE CASE outcome.kind \in {"NoTranscriptFound", "VideoUnavailable"} -> 404
                  [] outcome.kind = "TranscriptsDisabled" -> 403
                  [] outcome.kind = "ok" -> 200
                  [] OTHER -> 500
      /\ response.status = 200 => (outcome.kind = "ok" /\ calls = 1)

C1_Witness ==
    /\ TranscriptDone
    /\ outcome.kind = "VideoUnavailable"
    /\ response.status = 404

\* C2: /api/check-transcript answers 200 when video_url yields an identifier
\* and the listing succeeds (available true) or fails with NoTranscriptFound,
\* TranscriptsDisabled or VideoUnavailable (available false), 400 when
\* video_url is missing or yields no identifier, 500 on any other failure.
C2_CheckStatus ==
    CheckDone =>
      IF NoIdentifier(request.video_url) THEN response.status = 400
      ELSE IF outcome.kind = "ok"
      THEN response.status = 200 /\ <<"available", "True">> \in response.json
      ELSE IF outcome.kind \in {"NoTranscriptFound", "TranscriptsDisabled", "VideoUnavailable"}
      THEN response.status = 200 /\ <<"available", "False">> \in response.json
      ELSE response.status = 500

C2_Witness ==
    /\ CheckDone
    /\ outcome.kind = "TranscriptsDisabled"
    /\ <<"available", "False">> \in response.json

\* C5: within one request the provider is called at most once: exactly once
\* when an identifier was extracted, after the extraction and before the
\* response, never when video_url is missing or yields no identifier; after
\* a failure the next step is the response, without another call.
C5_SingleCall ==
    /\ [](/\ calls <= 1
          /\ calls = 1 => (video_id # None /\ ~NoIdentifier(request.video_url))
          /\ pc = "responded" => calls = (IF NoIdentifier(request.video_url) THEN 0 ELSE 1))
    /\ [][/\ calls' > calls =>
               (pc = "fetching" /\ video_id # None /\ response = NoResponse
                  /\ pc' = "returned" /\ response' = NoResponse)
          /\ (pc = "returned" /\ outcome.kind # "ok") =>
               (pc' = "responded" /\ calls' = calls /\ response' # NoResponse)]_vars

C5_Witness ==
    /\ pc = "responded"
    /\ calls = 1
    /\ outcome.kind = "Exception"
    /\ response.status = 500

(* ---- C3, C4: extract_video_id ---- *)
\* the markers the claims name
ClaimMarkers ==
    {Lit_youtube_com, Lit_youtu_be, Lit_watch, Lit_embed, Lit_v, Lit_shorts, Lit_live}

\* the characters video identifiers are written with
IdChars ==
    { "a","b","c","d","e","f","g","h","i","j","k","l","m","n","o","p","q","r","s","t",
      "u","v","w","x","y","z","A","B","C","D","E","F","G","H","I","J","K","L","M","N",
      "O","P","Q","R","S","T","U","V","W","X","Y","Z","0","1","2","3","4","5","6","7",
      "8","9","-","_" }

\* the 11-character identifier tokens that immediately follow a marker
\* somewhere in url
TokensAfterMarkers(url) ==
    { tok \in { Capture(url, mp[2] + Len(mp[1])) : mp \in
                  { mp \in ClaimMarkers \X (1..Len(url)) : StartsAt(url, mp[2], mp[1]) } } :
        tok # None /\ \A i \in 1..Len(tok) : tok[i] \in IdChars }

NoMarker(url) == \A m \in ClaimMarkers : \A p \in 1..Len(url) : ~StartsAt(url, p, m)

\* C3 as stated, in its weakest reading: when some marker is immediately
\* followed by an 11-character identifier token, the identifier returned is
\* such a token.
C3_Original ==
    (pc = "extracted" /\ TokensAfterMarkers(video_url) # {}) =>
        video_id \in TokensAfterMarkers(video_url)

\* the optional path markers, in the order of the pattern
OptMarkers ==
    <<Lit_watch, Lit_embed, Lit_v, Lit_shorts, Lit_live, Lit_embed, Lit_shorts, Lit_veq>>

\* where url continues after the markers k.. that take selects, read from q
\* on; 0 when a selected marker is not there
RECURSIVE ChainEnd(_, _, _, _)
ChainEnd(url, q, take, k) ==
    IF k > Len(OptMarkers) THEN q
    ELSE IF ~take[k] THEN ChainEnd(url, q, take, k + 1)
    ELSE IF StartsAt(url, q, OptMarkers[k])
         THEN ChainEnd(url, q + Len(OptMarkers[k]), take, k + 1)
         ELSE 0

\* the selections of markers after which 11 non-whitespace characters follow
Readings(url, q) ==
    { take \in [1..Len(OptMarkers) -> BOOLEAN] :
        /\ ChainEnd(url, q, take, 1) # 0
        /\ Capture(url, ChainEnd(url, q, take, 1)) # None }

\* a takes a marker that b leaves out, at the first place where they differ
Earlier(a, b) ==
    \E k \in 1..Len(OptMarkers) :
        a[k] /\ ~b[k] /\ \A j \in 1..(k - 1) : a[j] = b[j]

\* the position after "host/" for a host at p, 0 when there is none
AfterHost(url, p) ==
    IF StartsAt(url, p, Lit_youtube_com \o Lit_slash) THEN p + Len(Lit_youtube_com) + 1
    ELSE IF StartsAt(url, p, Lit_youtu_be \o Lit_slash) THEN p + Len(Lit_youtu_be) + 1
    ELSE 0

ExpectedId(url) ==
    LET hosts == { p \in 1..Len(url) :
                     AfterHost(url, p) # 0 /\ Readings(url, AfterHost(url, p)) # {} }
    IN IF hosts = {} THEN None
       ELSE LET p == CHOOSE h \in hosts : \A g \in hosts : h <= g
                R == Readings(url, AfterHost(url, p))
                best == CHOOSE a \in R : \A b \in R \ {a} : Earlier(a, b)
            IN Capture(url, ChainEnd(url, AfterHost(url, p), best, 1))

\* C3, amended: when youtube.com or youtu.be is followed by "/", by path
\* markers in the order of the pattern and by 11 non-whitespace characters,
\* extract_video_id returns these 11 characters, at the leftmost such host
\* and for the reading that takes each marker as early as it can; without
\* such a host there is no identifier.
C3_Amended == pc = "extracted" => video_id = ExpectedId(video_url)

C3_Witness ==
    /\ pc = "extracted"
    /\ video_url = Lit_https \o Lit_www \o Lit_youtube_com \o Lit_slash \o Lit_watch \o Tok_id
    /\ video_id = Tok_id

\* C4 as stated: every string without a marker yields no identifier and is
\* answered 400 "Invalid YouTube URL" by both endpoints.
C4_Original ==
    (pc = "responded" /\ request.video_url # None /\ NoMarker(request.video_url)) =>
        /\ extract_video_id(request.video_url) = None
        /\ response.status = 400
        /\ <<"error", "Invalid YouTube URL">> \in response.json

\* C4, amended: every non-empty string without a marker yields no identifier
\* and is answered 400 "Invalid YouTube URL" by both endpoints; the empty
\* string is answered 400 "No video URL provided".
C4_Amended ==
    (pc = "responded" /\ request.video_url # None /\ NoMarker(request.video_url)) =>
        /\ extract_video_id(request.video_url) = None
        /\ response.status = 400
        /\ response.json =
             IF request.video_url = <<>> THEN {<<"error", "No video URL provided">>}
             ELSE {<<"error", "Invalid YouTube URL">>}

C4_Witness ==
    /\ CheckDone
    /\ request.video_url = Tok_id
    /\ response.json = {<<"error", "Invalid YouTube URL">>}

(* ---- C6, C7, C8: the formats ---- *)
FormatDone == TranscriptDone /\ outcome.kind = "ok"

\* on one line and without indentation
IsCompact(b) ==
    \A i \in 1..Len(b) :
        /\ b[i] # "\n"
        /\ i < Len(b) => ~(b[i] = " " /\ b[i + 1] = " ")

\* C6 as stated: an absent format or one outside {txt, srt, json} is
\* answered with the compact form as application/json, txt and srt as text/plain.
C6_Original ==
    FormatDone =>
      /\ request.format \notin {Str_txt, Str_srt, Str_json} =>
           /\ response.status = 200
           /\ response.mimetype = "application/json"
           /\ IsCompact(response.body)
      /\ request.format \in {Str_txt, Str_srt} => response.mimetype = "text/plain"

\* C6, amended: a format outside {txt, srt, json} is not rejected and is
\* answered with the compact form as application/json; an absent format is
\* json, the indented form as application/json; txt and srt are text/plain.
C6_Amended ==
    FormatDone =>
      /\ response.status = 200
      /\ (request.format # None /\ request.format \notin {Str_txt, Str_srt, Str_json}) =>
           /\ response.mimetype = "application/json"
           /\ IsCompact(response.body)
           /\ response.body = json_dumps(outcome.transcript, {})
      /\ request.format = None =>
           /\ response.mimetype = "application/json"
           /\ response.body = json_dumps(outcome.transcript, {2})
           /\ outcome.transcript # <<>> => ~IsCompact(response.body)
      /\ request.format \in {Str_txt, Str_srt} => response.mimetype = "text/plain"

C6_Witness ==
    /\ FormatDone
    /\ request.format = Str_xml
    /\ Len(outcome.transcript) = MaxLen
    /\ response.mimetype = "application/json"

\* the block of the entry at 1-based index i
Block(item, i) ==
    Concat(<< Dec(i), <<"\n">>,
              format_time(item.start), Arrow, format_time(item.start + item.duration), <<"\n">>,
              item.text, <<"\n">>,
              <<"\n">> >>)

\* C7: the srt form of a transcript is its len(transcript) blocks in
\* order, block i being the line i, the line "start --> end", the text and
\* a blank line; the empty transcript gives the empty string.
C7_SrtBlocks ==
    (FormatDone /\ format_type = Str_srt) =>
      /\ response.body =
           Concat([i \in 1..Len(outcome.transcript) |-> Block(outcome.transcript[i], i)])
      /\ outcome.transcript = <<>> => response.body = <<>>

C7_Witness ==
    /\ FormatDone
    /\ format_type = Str_srt
    /\ Len(outcome.transcript) = MaxLen
    /\ response.body # <<>>

\* the SS of HH:MM:SS,mmm
SecondsField(ts) == SubSeq(ts, Len(ts) - 5, Len(ts) - 4)

\* C8: the seconds field of a formatted time is never 60.
C8_SecondsNever60 ==
    (FormatDone /\ format_type = Str_srt) =>
      \A i \in 1..Len(outcome.transcript) :
        LET item == outcome.transcript[i]
        IN /\ SecondsField(format_time(item.start)) # <<"6", "0">>
           /\ SecondsField(format_time(item.start + item.duration)) # <<"6", "0">>

(* ---- C9, C10: the failure responses of /api/transcript ---- *)
ProviderKinds == {"NoTranscriptFound", "TranscriptsDisabled", "VideoUnavailable"}

\* the response /api/transcript would give had the provider raised k
ResponseFor(k) == transcript_response([outcome EXCEPT !.kind = k], format_type)

ErrorOf(resp) == (CHOOSE kv \in resp.json : kv[1] = "error")[2]

\* C9 as stated: no two of the three failure kinds get the same status.
C9_Original ==
    (TranscriptDone /\ outcome.kind \in ProviderKinds) =>
      \A k \in ProviderKinds \ {outcome.kind} : ResponseFor(k).status # response.status

\* C9, amended: NoTranscriptFound and VideoUnavailable both get 404 and
\* TranscriptsDisabled gets 403; the three kinds get pairwise distinct
\* error messages.
C9_Amended ==
    (TranscriptDone /\ outcome.kind \in ProviderKinds) =>
      /\ response.status = (IF outcome.kind = "TranscriptsDisabled" THEN 403 ELSE 404)
      /\ \A k \in ProviderKinds \ {outcome.kind} :
            ErrorOf(ResponseFor(k)) # ErrorOf(response)

C9_Witness ==
    /\ TranscriptDone
    /\ outcome.kind = "NoTranscriptFound"
    /\ response.status = 404

\* C10 as stated: every failure response carries "error" and "details".
C10_Original ==
    (TranscriptDone /\ response.status # 200) =>
      (HasKey(response.json, "error") /\ HasKey(response.json, "details"))

\* C10, amended: every failure response carries "error"; those with status
\* 403, 404 or 500 also carry "details", those with status 400 do not.
C10_Amended ==
    (TranscriptDone /\ response.status # 200) =>
      /\ response.status \in {400, 403, 404, 500}
      /\ HasKey(response.json, "error")
      /\ HasKey(response.json, "details") <=> response.status \in {403, 404, 500}

C10_Witness ==
    /\ TranscriptDone
    /\ response.status = 500
    /\ <<"details", Boom>> \in response.json

====
